---- MODULE Spec2Model ----
(***************************************************************************)
(* Model of src/food_dis_sim.py: one call of run_simulation, i.e. a simpy  *)
(* environment with the order arrival process (food_delivery), one         *)
(* handle_order process per order, the driver Resource and the results.    *)
(* Virtual time and the random draws are small naturals; a mean or a       *)
(* throughput is a fraction <<numerator, denominator>>.                    *)
(***************************************************************************)
EXTENDS Integers, Sequences, FiniteSets, TLC

\* ---- bounds of the model ----
MaxDrivers == 2
MaxHorizon == 3
MaxGap == 2
MaxService == 2
MaxOrders == 3

\* ---- program constants ----
URGENT == 0
NORMAL == 1
MinutesPerHour == 60

NumDriverChoices == -1 .. MaxDrivers
HorizonChoices == -1 .. MaxHorizon
GapChoices == 0 .. MaxGap
ServiceChoices == 0 .. MaxService
OrderIds == 1 .. MaxOrders
None == -1

VARIABLES
    num_drivers,      \* argument of run_simulation
    sim_duration,     \* argument of run_simulation (the horizon)
    pc,               \* "start", "running", "returned", "failed"
    error,            \* the exception run_simulation raised, or "none"
    now,              \* env.now
    queue,            \* env._queue: the scheduled events
    eid,              \* env._eid: insertion counter of the event queue
    has_resource,     \* driver_resource has been constructed
    order_id,         \* local of food_delivery
    users,            \* driver_resource.users
    put_queue,        \* driver_resource.put_queue (pending requests)
    ostate,           \* per order: position of its handle_order process
    arrival_time,     \* per order: local of handle_order
    wait_time,        \* per order: local of handle_order
    results,          \* the results dict
    ret,              \* the value run_simulation returned
    spawned,          \* history: ids passed to handle_order, in order
    requested,        \* history: ids in the order they issued request()
    granted,          \* history: ids in the order they were granted
    queued,           \* history: ids whose request was not granted at once
    departed,         \* history: <<id, time>> of each finished order, in order
    resumed,          \* history: number of process resumptions
    mode,             \* random source: "plain", "record" or "replay"
    tape,             \* random source: the draws of the recorded run
    pos,              \* random source: next draw to replay
    first             \* results of the recorded run

vars == <<num_drivers, sim_duration, pc, error, now, queue, eid, has_resource,
          order_id, users, put_queue, ostate, arrival_time, wait_time,
          results, ret, spawned, requested, granted, queued, departed,
          resumed, mode, tape, pos, first>>

config == <<num_drivers, sim_duration>>
rng == <<mode, tape, pos, first>>
pool == <<users, put_queue>>
hist == <<spawned, requested, granted, queued, departed>>
locals == <<ostate, arrival_time, wait_time>>

\* ---- fractions ----
RECURSIVE SumSeq(_)
SumSeq(s) == IF s = <<>> THEN 0 ELSE Head(s) + SumSeq(Tail(s))

Zero == <<0, 1>>
RatEq(a, b) == a[1] * b[2] = b[1] * a[2]

\* the outcome of an expression: a value, or the exception it raises
Value(v) == [err |-> "none", val |-> v]
Raise(x) == [err |-> x, val |-> Zero]

\* statistics.mean(xs): StatisticsError on an empty list
statistics_mean(xs) ==
    IF Len(xs) = 0 THEN Raise("StatisticsError")
    ELSE Value(<<SumSeq(xs), Len(xs)>>)

avg_unguarded(xs) == statistics_mean(xs)

\* statistics.mean(xs) if xs else 0
avg_of(xs) == IF Len(xs) > 0 THEN statistics_mean(xs) ELSE Value(Zero)

throughput_per_minute(count, duration) ==
    IF duration = 0 THEN Raise("ZeroDivisionError")
    ELSE Value(<<count, duration>>)

\* len(completed_orders) / (sim_duration / 60.0)
throughput_of(count, duration) ==
    IF duration = 0 THEN Raise("ZeroDivisionError")
    ELSE Value(<<count * MinutesPerHour, duration>>)

\* ---- the event queue ----
Event(t, p, id, k, o) == [time |-> t, prio |-> p, eid |-> id, kind |-> k, oid |-> o]

BeforeNoTieBreak(e, f) ==
    \/ e.time < f.time
    \/ e.time = f.time /\ e.prio <= f.prio

BeforeNewestFirst(e, f) ==
    \/ e.time < f.time
    \/ e.time = f.time /\ e.prio < f.prio
    \/ e.time = f.time /\ e.prio = f.prio /\ e.eid > f.eid

\* heap order of env._queue: (time, priority, eid)
Before(e, f) ==
    \/ e.time < f.time
    \/ e.time = f.time /\ e.prio < f.prio
    \/ e.time = f.time /\ e.prio = f.prio /\ e.eid < f.eid

IsNext(e) == e \in queue /\ \A f \in queue \ {e} : Before(e, f)

UntilEventAfterOthers(at, id) == Event(at, NORMAL + 1, id, "until", 0)

UntilEventLate(at, id) == Event(at + 1, URGENT, id, "until", 0)

\* env.run(until=at): the stop event, scheduled before all regular timeouts
UntilEvent(at, id) == Event(at, URGENT, id, "until", 0)

ReleaseEventDelayed(t, id, o) == Event(t + 1, NORMAL, id, "release", o)

\* the Release event of the request's __exit__, triggered at once
ReleaseEvent(t, id, o) == Event(t, NORMAL, id, "release", o)

\* ---- the random source ----
Draws(S) ==
    IF mode = "replay"
    THEN (IF pos <= Len(tape) THEN {tape[pos]} \cap S ELSE {})
    ELSE S

GapDrawsWithZero == Draws(GapChoices)

\* random.expovariate(arrival_rate); a "spaced" source never draws gap 0,
\* an "extremes" source draws only the smallest and the largest value
GapDraws ==
    Draws(IF mode = "spaced" THEN GapChoices \ {0}
          ELSE IF mode = "extremes" THEN {0, MaxGap}
          ELSE GapChoices)

\* random.expovariate(1.0 / service_time_mean)
ServiceDraws ==
    Draws(IF mode = "extremes" THEN {0, MaxService} ELSE ServiceChoices)

Drawn(d) ==
    /\ tape' = IF mode = "record" THEN Append(tape, d) ELSE tape
    /\ pos' = IF mode = "replay" THEN pos + 1 ELSE pos
    /\ UNCHANGED <<mode, first>>

\* ---- the driver resource ----
CapacityNonNegative(capacity) == capacity >= 0

\* simpy.Resource(env, capacity): a capacity <= 0 raises ValueError
CapacityOk(capacity) == capacity > 0

CanGrantOffByOne(us) == Len(us) <= num_drivers

\* Resource._do_put: a unit is free
CanGrant(us) == Len(us) < num_drivers

TriggerPutNewest(us, pq, q, id) ==
    IF pq # <<>> /\ Len(us) < num_drivers
    THEN [users |-> Append(us, pq[Len(pq)]),
          put_queue |-> SubSeq(pq, 1, Len(pq) - 1),
          queue |-> q \cup {Event(now', NORMAL, id, "req", pq[Len(pq)])},
          eid |-> id + 1, grant |-> <<pq[Len(pq)]>>]
    ELSE [users |-> us, put_queue |-> pq, queue |-> q, eid |-> id,
          grant |-> <<>>]

TriggerPutDelayedGrant(us, pq, q, id) ==
    IF pq # <<>> /\ Len(us) < num_drivers
    THEN [users |-> Append(us, Head(pq)), put_queue |-> Tail(pq),
          queue |-> q \cup {Event(now' + 1, NORMAL, id, "req", Head(pq))},
          eid |-> id + 1, grant |-> <<Head(pq)>>]
    ELSE [users |-> us, put_queue |-> pq, queue |-> q, eid |-> id,
          grant |-> <<>>]

TriggerPutKeepsQueued(us, pq, q, id) ==
    IF pq # <<>> /\ Len(us) < num_drivers
    THEN [users |-> Append(us, Head(pq)), put_queue |-> pq,
          queue |-> q \cup {Event(now', NORMAL, id, "req", Head(pq))},
          eid |-> id + 1, grant |-> <<Head(pq)>>]
    ELSE [users |-> us, put_queue |-> pq, queue |-> q, eid |-> id,
          grant |-> <<>>]

\* BaseResource._trigger_put: only the head of put_queue is tried
TriggerPut(us, pq, q, id) ==
    IF pq # <<>> /\ CanGrant(us)
    THEN [users |-> Append(us, Head(pq)), put_queue |-> Tail(pq),
          queue |-> q \cup {Event(now', NORMAL, id, "req", Head(pq))},
          eid |-> id + 1, grant |-> <<Head(pq)>>]
    ELSE [users |-> us, put_queue |-> pq, queue |-> q, eid |-> id,
          grant |-> <<>>]

OnReleaseNoWake(us, pq, q, id) ==
    [users |-> us, put_queue |-> pq, queue |-> q, eid |-> id, grant |-> <<>>]

\* the callback of a processed Release event: _trigger_put
OnRelease(us, pq, q, id) == TriggerPut(us, pq, q, id)

RemoveUserNone(us, o) == us

\* Resource._do_get of the Release: users.remove(request)
RemoveUser(us, o) == SelectSeq(us, LAMBDA u : u # o)

EmptyResults == [wait_times |-> <<>>, system_times |-> <<>>, completed_orders |-> <<>>]
NoReturn == [avg_wait |-> Zero, avg_system |-> Zero, throughput |-> Zero, returned |-> FALSE]

InitRun ==
    /\ pc = "start"
    /\ error = "none"
    /\ now = 0
    /\ queue = {}
    /\ eid = 0
    /\ has_resource = FALSE
    /\ order_id = 0
    /\ users = <<>>
    /\ put_queue = <<>>
    /\ ostate = [o \in OrderIds |-> "unborn"]
    /\ arrival_time = [o \in OrderIds |-> None]
    /\ wait_time = [o \in OrderIds |-> None]
    /\ results = EmptyResults
    /\ ret = NoReturn
    /\ spawned = <<>>
    /\ requested = <<>>
    /\ granted = <<>>
    /\ queued = {}
    /\ departed = <<>>
    /\ resumed = 0

Init ==
    /\ num_drivers \in NumDriverChoices
    /\ sim_duration \in HorizonChoices
    /\ InitRun
    /\ mode = "plain"
    /\ tape = <<>>
    /\ pos = 1
    /\ first = EmptyResults

\* run_simulation up to the entry of env.run's loop
StartRun ==
    /\ pc = "start"
    /\ LET q1 == {Event(0, URGENT, 0, "init_fd", 0)}
       IN IF sim_duration <= now
          THEN /\ pc' = "failed"
               /\ error' = "ValueError"
               /\ queue' = q1
               /\ eid' = 1
          ELSE /\ pc' = "running"
               /\ error' = error
               /\ queue' = q1 \cup {UntilEvent(sim_duration, 1)}
               /\ eid' = 2
    /\ UNCHANGED <<config, now, has_resource, order_id, pool, locals, results,
                   ret, hist, resumed, rng>>

\* first resumption of food_delivery: the resource and the first timeout
StartArrivals ==
    /\ pc = "running"
    /\ \E e \in queue :
        /\ IsNext(e)
        /\ e.kind = "init_fd"
        /\ now' = e.time
        /\ resumed' = resumed + 1
        /\ IF ~CapacityOk(num_drivers)
           THEN /\ queue' = (queue \ {e}) \cup {Event(now', NORMAL, eid, "proc_fail", 0)}
                /\ has_resource' = FALSE
                /\ UNCHANGED rng
           ELSE /\ has_resource' = TRUE
                /\ \E gap \in GapDraws :
                    /\ queue' = (queue \ {e}) \cup {Event(now' + gap, NORMAL, eid, "arrival", 0)}
                    /\ Drawn(gap)
        /\ eid' = eid + 1
    /\ UNCHANGED <<config, pc, error, order_id, pool, locals, results, ret, hist>>

\* env.step on the failed process event: the exception leaves run_simulation
ProcessFailed ==
    /\ pc = "running"
    /\ \E e \in queue :
        /\ IsNext(e)
        /\ e.kind = "proc_fail"
        /\ now' = e.time
        /\ queue' = queue \ {e}
        /\ pc' = "failed"
        /\ error' = "ValueError"
    /\ UNCHANGED <<config, eid, has_resource, order_id, pool, locals, results,
                   ret, hist, resumed, rng>>

NextOrderIdSkip(id) == id + 2

\* order_id += 1
NextOrderId(id) == id + 1

\* food_delivery resumes from its timeout: next id, spawn, next timeout
Arrival ==
    /\ pc = "running"
    /\ order_id < MaxOrders
    /\ \E e \in queue :
        /\ IsNext(e)
        /\ e.kind = "arrival"
        /\ now' = e.time
        /\ resumed' = resumed + 1
        /\ order_id' = NextOrderId(order_id)
        /\ spawned' = Append(spawned, order_id')
        /\ \E gap \in GapDraws :
            /\ queue' = (queue \ {e}) \cup
                   {Event(now', URGENT, eid, "init_order", order_id'),
                    Event(now' + gap, NORMAL, eid + 1, "arrival", 0)}
            /\ Drawn(gap)
        /\ eid' = eid + 2
    /\ UNCHANGED <<config, pc, error, has_resource, pool, locals, results, ret,
                   requested, granted, queued, departed>>

\* first resumption of handle_order: arrival_time and the request
OrderStart ==
    /\ pc = "running"
    /\ \E e \in queue :
        /\ IsNext(e)
        /\ e.kind = "init_order"
        /\ now' = e.time
        /\ resumed' = resumed + 1
        /\ arrival_time' = [arrival_time EXCEPT ![e.oid] = now']
        /\ ostate' = [ostate EXCEPT ![e.oid] = "waiting"]
        /\ requested' = Append(requested, e.oid)
        /\ LET t == TriggerPut(users, Append(put_queue, e.oid), queue \ {e}, eid)
           IN /\ users' = t.users
              /\ put_queue' = t.put_queue
              /\ queue' = t.queue
              /\ eid' = t.eid
              /\ granted' = granted \o t.grant
              /\ queued' = IF t.grant = <<e.oid>> THEN queued ELSE queued \cup {e.oid}
    /\ UNCHANGED <<config, pc, error, has_resource, order_id, wait_time,
                   results, ret, spawned, departed, rng>>

WaitTimeReversed(t, arrived) == arrived - t

\* wait_time = env.now - arrival_time
WaitTime(t, arrived) == t - arrived

\* handle_order resumes from the request: wait_time and the service timeout
ServiceStart ==
    /\ pc = "running"
    /\ \E e \in queue :
        /\ IsNext(e)
        /\ e.kind = "req"
        /\ now' = e.time
        /\ resumed' = resumed + 1
        /\ wait_time' = [wait_time EXCEPT ![e.oid] = WaitTime(now', arrival_time[e.oid])]
        /\ ostate' = [ostate EXCEPT ![e.oid] = "service"]
        /\ \E service_time \in ServiceDraws :
            /\ queue' = (queue \ {e}) \cup
                   {Event(now' + service_time, NORMAL, eid, "service_end", e.oid)}
            /\ Drawn(service_time)
        /\ eid' = eid + 1
    /\ UNCHANGED <<config, pc, error, has_resource, order_id, pool,
                   arrival_time, results, ret, hist>>

\* system_time = env.now - arrival_time
SystemTime(t, arrived) == t - arrived

RecordNewestFirst(r, o, w, s) ==
    [wait_times |-> <<w>> \o r.wait_times,
     system_times |-> <<s>> \o r.system_times,
     completed_orders |-> <<o>> \o r.completed_orders]

\* the three appends to results
Record(r, o, w, s) ==
    [wait_times |-> Append(r.wait_times, w),
     system_times |-> Append(r.system_times, s),
     completed_orders |-> Append(r.completed_orders, o)]

\* handle_order resumes from the service timeout: results, release, end
ServiceEnd ==
    /\ pc = "running"
    /\ \E e \in queue :
        /\ IsNext(e)
        /\ e.kind = "service_end"
        /\ now' = e.time
        /\ resumed' = resumed + 1
        /\ results' = Record(results, e.oid, wait_time[e.oid],
                             SystemTime(now', arrival_time[e.oid]))
        /\ ostate' = [ostate EXCEPT ![e.oid] = "done"]
        /\ departed' = Append(departed, <<e.oid, now'>>)
        /\ users' = RemoveUser(users, e.oid)
        /\ queue' = (queue \ {e}) \cup
               {ReleaseEvent(now', eid, e.oid),
                Event(now', NORMAL, eid + 1, "proc_end", e.oid)}
        /\ eid' = eid + 2
    /\ UNCHANGED <<config, pc, error, has_resource, order_id, put_queue,
                   arrival_time, wait_time, ret, spawned, requested, granted,
                   queued, rng>>

\* the Release event is processed: its callback tries the head of put_queue
Released ==
    /\ pc = "running"
    /\ \E e \in queue :
        /\ IsNext(e)
        /\ e.kind = "release"
        /\ now' = e.time
        /\ LET t == OnRelease(users, put_queue, queue \ {e}, eid)
           IN /\ users' = t.users
              /\ put_queue' = t.put_queue
              /\ queue' = t.queue
              /\ eid' = t.eid
              /\ granted' = granted \o t.grant
    /\ UNCHANGED <<config, pc, error, has_resource, order_id, locals, results,
                   ret, spawned, requested, queued, departed, resumed, rng>>

\* the event of a terminated handle_order process: nobody waits for it
ProcessEnded ==
    /\ pc = "running"
    /\ \E e \in queue :
        /\ IsNext(e)
        /\ e.kind = "proc_end"
        /\ now' = e.time
        /\ queue' = queue \ {e}
    /\ UNCHANGED <<config, pc, error, eid, has_resource, order_id, pool, locals,
                   results, ret, hist, resumed, rng>>

\* the three expressions of the return value, each a value or an exception
Summary(r, duration) ==
    [avg_wait |-> avg_of(r.wait_times),
     avg_system |-> avg_of(r.system_times),
     throughput |-> throughput_of(Len(r.completed_orders), duration)]

IsError(v) == v.err # "none"

\* the until event stops env.run; run_simulation computes its return value
Finish ==
    /\ pc = "running"
    /\ \E e \in queue :
        /\ IsNext(e)
        /\ e.kind = "until"
        /\ now' = e.time
        /\ queue' = queue \ {e}
        /\ LET s == Summary(results, sim_duration)
           IN IF IsError(s.avg_wait) THEN
                 /\ pc' = "failed" /\ error' = s.avg_wait.err /\ ret' = ret
              ELSE IF IsError(s.avg_system) THEN
                 /\ pc' = "failed" /\ error' = s.avg_system.err /\ ret' = ret
              ELSE IF IsError(s.throughput) THEN
                 /\ pc' = "failed" /\ error' = s.throughput.err /\ ret' = ret
              ELSE
                 /\ pc' = "returned"
                 /\ error' = error
                 /\ ret' = [avg_wait |-> s.avg_wait.val,
                            avg_system |-> s.avg_system.val,
                            throughput |-> s.throughput.val,
                            returned |-> TRUE]
    /\ UNCHANGED <<config, eid, has_resource, order_id, pool, locals, results,
                   hist, resumed, rng>>

Next ==
    \/ StartRun
    \/ StartArrivals
    \/ ProcessFailed
    \/ Arrival
    \/ OrderStart
    \/ ServiceStart
    \/ ServiceEnd
    \/ Released
    \/ ProcessEnded
    \/ Finish

Spec == Init /\ [][Next]_vars

\* ---- two runs on the same draws ----
\* the first run records its draws, the second run replays them
InitDet ==
    /\ num_drivers \in NumDriverChoices
    /\ sim_duration \in HorizonChoices
    /\ InitRun
    /\ mode = "record"
    /\ tape = <<>>
    /\ pos = 1
    /\ first = EmptyResults

\* a second call of run_simulation with the same arguments
Restart ==
    /\ pc = "returned"
    /\ mode = "record"
    /\ mode' = "replay"
    /\ first' = results
    /\ pos' = 1
    /\ pc' = "start"
    /\ error' = "none"
    /\ now' = 0
    /\ queue' = {}
    /\ eid' = 0
    /\ has_resource' = FALSE
    /\ order_id' = 0
    /\ users' = <<>>
    /\ put_queue' = <<>>
    /\ ostate' = [o \in OrderIds |-> "unborn"]
    /\ arrival_time' = [o \in OrderIds |-> None]
    /\ wait_time' = [o \in OrderIds |-> None]
    /\ results' = EmptyResults
    /\ ret' = NoReturn
    /\ spawned' = <<>>
    /\ requested' = <<>>
    /\ granted' = <<>>
    /\ queued' = {}
    /\ departed' = <<>>
    /\ resumed' = 0
    /\ UNCHANGED <<config, tape>>

NextDet == Next \/ Restart

SpecDet == InitDet /\ [][NextDet]_vars

\* ---- runs whose inter-arrival gaps are all positive ----
InitLive ==
    /\ num_drivers \in NumDriverChoices
    /\ sim_duration \in HorizonChoices
    /\ InitRun
    /\ mode = "spaced"
    /\ tape = <<>>
    /\ pos = 1
    /\ first = EmptyResults

\* env.run keeps calling env.step until an exception leaves the loop
SpecLive == InitLive /\ [][Next]_vars /\ WF_vars(Next)

\* ---- runs that are not cut off by the horizon ----
\* a horizon after the latest possible departure of the orders 1..MaxOrders
FarHorizon == MaxOrders * (MaxGap + MaxService) + 1

InitDrain ==
    /\ num_drivers \in NumDriverChoices
    /\ sim_duration = FarHorizon
    /\ InitRun
    /\ mode = "extremes"
    /\ tape = <<>>
    /\ pos = 1
    /\ first = EmptyResults

\* food_delivery resumes from its timeout after the last order of the
\* model's window: the later orders are not followed; they request after
\* the orders of the window and cannot take a unit ahead of them
ArrivalBeyond ==
    /\ pc = "running"
    /\ order_id >= MaxOrders
    /\ \E e \in queue :
        /\ IsNext(e)
        /\ e.kind = "arrival"
        /\ now' = e.time
        /\ resumed' = resumed + 1
        /\ queue' = queue \ {e}
    /\ UNCHANGED <<config, pc, error, eid, has_resource, order_id, pool, locals,
                   results, ret, hist, rng>>

NextDrain == Next \/ ArrivalBeyond

SpecDrain == InitDrain /\ [][NextDrain]_vars /\ WF_vars(NextDrain)

\* ---- properties ----
Range(s) == {s[i] : i \in DOMAIN s}
PosIn(s, x) == CHOOSE i \in DOMAIN s : s[i] = x
IsPrefix(s, t) == Len(s) <= Len(t) /\ SubSeq(t, 1, Len(s)) = s
inUse == Len(users)
completedCount == Len(results.completed_orders)
Finished == pc \in {"returned", "failed"}

\* C1: while the driver pool exists, the number of units granted to
\* order-handling processes is between 0 and num_drivers.
C1_InUseWithinCapacity ==
    has_resource => (0 <= inUse /\ inUse <= num_drivers)

\* C1 witness: both of two drivers are taken and an order is waiting.
C1_Witness ==
    has_resource /\ num_drivers = 2 /\ inUse = 2 /\ put_queue # <<>>

\* C2: of two orders that both had to wait, the one that requested first is
\* granted first; and no granted order requested after an order that is
\* still waiting in the pool's queue.
C2_FifoGranting ==
    /\ \A a \in queued : \A b \in queued :
          (PosIn(requested, a) < PosIn(requested, b) /\ b \in Range(granted))
             => (a \in Range(granted) /\ PosIn(granted, a) < PosIn(granted, b))
    /\ \A a \in Range(put_queue) : \A b \in Range(granted) :
          PosIn(requested, b) < PosIn(requested, a)

\* C2 witness: two orders had to wait, both have been granted since.
C2_Witness ==
    \E a \in queued : \E b \in queued :
       a # b /\ a \in Range(granted) /\ b \in Range(granted)

\* C3: the k-th order the arrival process spawns has id k.
C3_OrderIdsSequential ==
    /\ \A k \in DOMAIN spawned : spawned[k] = k
    /\ order_id = Len(spawned)

\* C3 witness: three orders spawned, the third one while the pool is full
\* and another order is waiting.
C3_Witness ==
    Len(spawned) >= 3 /\ put_queue # <<>> /\ ostate[3] = "unborn"

\* C4: every recorded wait time is >= 0 and every recorded system time is
\* at least the wait time recorded at the same index.
C4_TimesOrdered ==
    \A i \in DOMAIN results.wait_times :
       /\ results.wait_times[i] >= 0
       /\ i \in DOMAIN results.system_times
       /\ results.system_times[i] >= results.wait_times[i]

\* C4 witness: a recorded order waited and was then served for a while.
C4_Witness ==
    \E i \in DOMAIN results.wait_times :
       results.wait_times[i] > 0 /\ results.system_times[i] > results.wait_times[i]

\* C5 as stated: the returned throughput is completedCount / horizon.
C5_ThroughputPerUnitTime ==
    (pc = "returned" /\ sim_duration > 0)
       => RatEq(ret.throughput, <<completedCount, sim_duration>>)

\* C5 amended: the returned throughput is completedCount divided by
\* (horizon / 60), i.e. throughput * horizon = 60 * completedCount.
C5_ThroughputPerHour ==
    (pc = "returned" /\ sim_duration > 0)
       => ret.throughput[1] * sim_duration
             = MinutesPerHour * completedCount * ret.throughput[2]

\* C5 witness: a run returned with two or more completed orders.
C5_Witness ==
    pc = "returned" /\ sim_duration > 0 /\ completedCount >= 2

\* C6: a run with horizon 0 ends by returning, with no completed order,
\* zero means and zero throughput, the clock still at 0.
C6_ZeroHorizonReturns ==
    (sim_duration = 0 /\ Finished)
       => /\ pc = "returned"
          /\ error = "none"
          /\ completedCount = 0
          /\ RatEq(ret.avg_wait, Zero)
          /\ RatEq(ret.avg_system, Zero)
          /\ RatEq(ret.throughput, Zero)
          /\ now = 0

\* C7 as stated: with num_drivers <= 0 no event is ever scheduled, no
\* process is ever resumed and no results are produced.
C7_FailsBeforeScheduling ==
    num_drivers <= 0
       => /\ eid = 0
          /\ resumed = 0
          /\ pc # "returned"
          /\ results = EmptyResults

\* C7 amended: with num_drivers <= 0 the run can only end in a ValueError;
\* the clock stays at 0, no pool exists, no order is spawned, at most the
\* start of the arrival process has been resumed, nothing is recorded or
\* returned, and a run still going has the failure pending in its queue.
C7_FailsBeforeFirstArrival ==
    num_drivers <= 0
       => /\ pc # "returned"
          /\ ~ret.returned
          /\ results = EmptyResults
          /\ now = 0
          /\ ~has_resource
          /\ order_id = 0
          /\ spawned = <<>>
          /\ resumed <= 1
          /\ (pc = "failed" => error = "ValueError")
          /\ \A e \in queue : e.kind \in {"init_fd", "until", "proc_fail"}
          /\ (pc = "running" =>
                \E e \in queue : IsNext(e) /\ e.kind \in {"init_fd", "proc_fail"})

\* C7 witness: a run with no driver and a positive horizon has failed
\* after the arrival process was started.
C7_Witness ==
    num_drivers <= 0 /\ sim_duration > 0 /\ pc = "failed" /\ resumed = 1

\* C8: a second run with the same arguments that replays the draws of the
\* first run returns the same three result sequences.
C8_Deterministic ==
    (mode = "replay" /\ Finished)
       => (pc = "returned" /\ results = first)

\* C8 witness: the replayed run returned with two or more completed orders
\* after two events had been scheduled for the same time.
C8_Witness ==
    /\ mode = "replay"
    /\ pc = "returned"
    /\ completedCount >= 2
    /\ \E i \in DOMAIN departed : \E j \in DOMAIN departed :
          i # j /\ departed[i][2] = departed[j][2]

\* the results and the finished orders agree, entry by entry
C9_State ==
    /\ Len(results.wait_times) = Len(departed)
    /\ Len(results.system_times) = Len(departed)
    /\ Len(results.completed_orders) = Len(departed)
    /\ \A i \in DOMAIN departed :
          LET o == departed[i][1]
          IN /\ results.completed_orders[i] = o
             /\ results.wait_times[i] = wait_time[o]
             /\ results.system_times[i] = departed[i][2] - arrival_time[o]
    /\ \A i \in DOMAIN departed : \A j \in DOMAIN departed :
          i < j => /\ departed[i][2] <= departed[j][2]
                   /\ departed[i][1] # departed[j][1]
    /\ Range(results.completed_orders) = {o \in OrderIds : ostate[o] = "done"}

\* a step only appends to the three result sequences
C9_AppendOnly ==
    /\ IsPrefix(results.wait_times, results'.wait_times)
    /\ IsPrefix(results.system_times, results'.system_times)
    /\ IsPrefix(results.completed_orders, results'.completed_orders)

\* C9: the three result sequences have one entry per finished order, in
\* completion order, entry i of each belonging to the i-th finished order;
\* an order still waiting or in service has no entry; entries are only
\* ever appended.
C9_OneEntryPerCompletedOrder == []C9_State /\ [][C9_AppendOnly]_vars

\* C9 witness: the run returned with a recorded order, an order still in
\* service and an order still waiting for a driver.
C9_Witness ==
    /\ pc = "returned"
    /\ completedCount >= 1
    /\ \E o \in OrderIds : ostate[o] = "service"
    /\ \E o \in OrderIds : ostate[o] = "waiting" /\ o \in Range(put_queue)

\* C10: a run whose horizon is reached with nothing recorded returns, with
\* mean wait 0 and mean system time 0.
C10_EmptyMeansZero ==
    /\ error # "StatisticsError"
    /\ (pc = "returned" /\ results.wait_times = <<>> /\ results.system_times = <<>>)
          => (RatEq(ret.avg_wait, Zero) /\ RatEq(ret.avg_system, Zero))

\* C10 witness: a run returned after orders arrived but none completed.
C10_Witness ==
    pc = "returned" /\ order_id > 0 /\ results.wait_times = <<>>
       /\ results.system_times = <<>>

\* C11 as stated: when the run returns, every event that is still scheduled
\* has a time after the horizon (events at the horizon have been executed).
C11_ExecutesThroughHorizon ==
    pc = "returned" => \A e \in queue : e.time > sim_duration

\* C11 amended: only events before the horizon are executed; the stop event
\* ends the run at the horizon with every event of time >= horizon still
\* scheduled, and no order is recorded as departed at the horizon or later.
C11_ExecutesBeforeHorizon ==
    /\ pc = "running" => now < sim_duration
    /\ pc = "returned" =>
          /\ now = sim_duration
          /\ \A e \in queue : e.time >= sim_duration
    /\ \A i \in DOMAIN departed : departed[i][2] < sim_duration

\* C11 witness: the run returned while a service end scheduled exactly at
\* the horizon was still in the queue, after an earlier order was recorded.
C11_Witness ==
    /\ pc = "returned"
    /\ completedCount >= 1
    /\ \E e \in queue : e.kind = "service_end" /\ e.time = sim_duration

ServiceStartTime(o) == arrival_time[o] + wait_time[o]
Started(o) == ostate[o] \in {"service", "done"}
DepartureTimes == {departed[i][2] : i \in DOMAIN departed}

\* C12 as stated: the step in which an order releases its driver while the
\* wait queue is non-empty also grants the unit to the head of the queue.
C12_GrantInReleaseStep ==
    [][(Len(departed') > Len(departed) /\ put_queue # <<>>)
          => Head(put_queue) \in Range(users')]_vars

\* an order that had to wait starts its service at the departure time of an
\* order that released a driver
C12_StartsAtDeparture ==
    \A o \in queued : Started(o) => ServiceStartTime(o) \in DepartureTimes

\* a step that grants a unit while orders wait grants it to the head
C12_GrantsHead ==
    (put_queue # <<>> /\ Len(granted') > Len(granted))
       => /\ granted' = Append(granted, Head(put_queue))
          /\ users' = Append(users, Head(put_queue))

\* a step that releases a unit does not grant it and does not move the clock
\* past the release: the Release event is scheduled for the same time
C12_ReleaseSchedulesGrant ==
    Len(departed') > Len(departed)
       => /\ granted' = granted
          /\ \E e \in queue' : e.kind = "release" /\ e.time = now' /\ e.eid >= eid

\* C12 amended: a release does not grant in its own step; the freed unit goes
\* to the head of the wait queue in a later step of the same virtual time
\* (when the Release event is processed, or when a new request arrives before
\* that), so the granted order's service starts at the releasing order's
\* departure time and no other request takes the unit in between.
C12_GrantAtReleaseTime ==
    /\ []C12_StartsAtDeparture
    /\ [][C12_GrantsHead /\ C12_ReleaseSchedulesGrant]_vars

\* C12 witness: an order that waited for a positive time is in service.
C12_Witness ==
    \E o \in queued : ostate[o] = "service" /\ wait_time[o] > 0

Requester == requested'[Len(requested')]
IsRequestStep == Len(requested') > Len(requested)
HasFreeUnit == inUse < num_drivers
GrantEventOf(o, q) == {e \in q : e.kind = "req" /\ e.oid = o}

\* C13 as stated: a request issued while inUse < capacity is granted in the
\* same step.
C13_GrantedWheneverFree ==
    [][(IsRequestStep /\ HasFreeUnit) => Requester \in Range(users')]_vars

\* the request step: granted at once exactly when a unit is free and nobody
\* is waiting; otherwise the requester becomes the tail of the wait queue
C13_RequestStep ==
    IsRequestStep =>
       IF HasFreeUnit /\ put_queue = <<>>
       THEN /\ users' = Append(users, Requester)
            /\ put_queue' = <<>>
            /\ \E e \in GrantEventOf(Requester, queue') : e.time = now'
       ELSE /\ put_queue' # <<>>
            /\ put_queue'[Len(put_queue')] = Requester
            /\ Requester \notin Range(users')
            /\ GrantEventOf(Requester, queue') = {}

\* an order granted at once records wait time 0; an order in the wait queue
\* is suspended: it holds no unit and no grant event of it is scheduled
C13_WaitingState ==
    /\ \A o \in Range(granted) \ queued : Started(o) => wait_time[o] = 0
    /\ \A o \in Range(put_queue) :
          /\ ostate[o] = "waiting"
          /\ o \notin Range(users)
          /\ GrantEventOf(o, queue) = {}

\* C13 amended: a request is granted at its arrival instant (wait time 0,
\* inUse one higher) whenever a unit is free and no earlier request is
\* waiting; otherwise the order is appended at the tail of the wait queue
\* and stays suspended until a unit reaches it.
C13_ImmediateGrantOrQueue ==
    /\ []C13_WaitingState
    /\ [][C13_RequestStep]_vars

\* C13 witness: an order requested while a unit was free but an earlier
\* order was waiting: it is queued behind nobody after the head got the unit.
C13_Witness ==
    /\ has_resource
    /\ num_drivers = 1
    /\ Len(requested) >= 3
    /\ put_queue = <<requested[Len(requested)]>>
    /\ \E o \in queued : GrantEventOf(o, queue) # {} /\ ostate[o] = "waiting"
    /\ \E e \in queue : e.kind = "release" /\ e.time = now

Popped == queue \ queue'

\* C14 as stated: an event is executed only when no event of the same time
\* that was inserted earlier is still scheduled.
C14_InsertionOrder ==
    [][\A e \in Popped : \A f \in queue :
          f.time = e.time => e.eid <= f.eid]_vars

\* C14 amended: among the events of one virtual time the urgent ones (the
\* start of a newly spawned process, the stop event) are executed before the
\* normal ones (timers, grants, releases), whatever their insertion order;
\* events of the same time and the same priority run in insertion order.
C14_PriorityThenInsertionOrder ==
    [][\A e \in Popped : \A f \in queue \ {e} :
          /\ e.time <= f.time
          /\ f.time = e.time => e.prio <= f.prio
          /\ (f.time = e.time /\ f.prio = e.prio) => e.eid < f.eid]_vars

\* C14 witness: the start of a new order process is scheduled for the
\* current time while a Release event inserted earlier is pending for that
\* time, together with a second normal event of that time.
C14_Witness ==
    /\ pc = "running"
    /\ \E e \in queue : \E f \in queue : \E g \in queue :
          /\ e.kind = "init_order" /\ f.kind = "release" /\ g.kind = "proc_end"
          /\ e.time = now /\ f.time = now /\ g.time = now
          /\ f.eid < e.eid /\ f.eid < g.eid

\* the clock is never negative and never beyond a non-negative horizon
C15_ClockWithinHorizon ==
    /\ now >= 0
    /\ sim_duration >= 0 => now <= sim_duration

\* the clock never goes back, and a step that moves it pops the next
\* scheduled event and sets the clock to that event's time
C15_ClockStep ==
    /\ now' >= now
    /\ now' # now => \E e \in Popped : IsNext(e) /\ now' = e.time

\* C15: now is non-decreasing, changes only when the next scheduled event
\* is popped, and never exceeds the horizon.
C15_ClockMonotone ==
    /\ []C15_ClockWithinHorizon
    /\ [][C15_ClockStep]_vars

\* C15 witness: the clock has reached the horizon after it had stopped at an
\* earlier positive time where an order departed.
C15_Witness ==
    /\ pc = "returned"
    /\ now = sim_duration
    /\ \E i \in DOMAIN departed : 0 < departed[i][2] /\ departed[i][2] < now

\* C16: with every inter-arrival gap positive the run loop stops for every
\* horizon: the run ends, and with a valid configuration it ends by the
\* clock reaching the horizon and run_simulation returning, the arrival
\* process still having its next timer scheduled.
C16_RunTerminates ==
    /\ <>Finished
    /\ (num_drivers > 0 /\ sim_duration > 0)
          => <>(/\ pc = "returned"
                /\ now = sim_duration
                /\ \E e \in queue : e.kind = "arrival")

\* C16 witness: a run with positive gaps returned at its horizon after two
\* or more arrivals, the next arrival still scheduled.
C16_Witness ==
    /\ mode = "spaced"
    /\ pc = "returned"
    /\ now = sim_duration
    /\ order_id >= 2
    /\ \E e \in queue : e.kind = "arrival"

PendingReleases == {e \in queue : e.kind = "release" /\ e.time = now}

\* C17 as stated: whenever an order waits in the queue, every driver is in
\* use.
C17_NoIdleDriverWhileWaiting ==
    (has_resource /\ put_queue # <<>>) => inUse = num_drivers

\* while an order waits, every driver not in use has just been released at
\* the current time and its Release event is still to be processed
C17_IdleOnlyUntilReleaseProcessed ==
    (has_resource /\ put_queue # <<>>)
       => inUse + Cardinality(PendingReleases) >= num_drivers

\* the clock does not advance, and the run does not end, while an order
\* waits and a driver is idle
C17_NoIdleAcrossTime ==
    (now' # now \/ pc' # pc)
       => (has_resource /\ put_queue # <<>> => inUse = num_drivers)

\* C17 amended: if the wait queue is non-empty then inUse = capacity, except
\* within the instant of a release: between the release and the processing
\* of its Release event a driver is idle although an order waits; the clock
\* never advances in such a state.
C17_WorkConserving ==
    /\ []C17_IdleOnlyUntilReleaseProcessed
    /\ [][C17_NoIdleAcrossTime]_vars

\* C17 witness: an order waits, a driver is idle and the Release event that
\* will hand it over is pending.
C17_Witness ==
    /\ has_resource
    /\ put_queue # <<>>
    /\ inUse < num_drivers
    /\ PendingReleases # {}

Spawned == Range(spawned)
Waiting == Range(put_queue)
InService == {o \in Range(granted) : \A i \in DOMAIN departed : departed[i][1] # o}
Completed == Range(results.completed_orders)
NotStarted == {e.oid : e \in {f \in queue : f.kind = "init_order"}}
NoRepeats(s) == Cardinality(Range(s)) = Len(s)

\* C18 as stated: inUse is the number of orders in service and every spawned
\* order is waiting, in service or completed.
C18_SpawnedPartition ==
    /\ inUse = Cardinality(InService)
    /\ Len(spawned) = Len(put_queue) + Cardinality(InService) + completedCount

\* C18 amended: inUse is the number of orders granted and not yet released;
\* no order holds two units or is released twice; every spawned order is in
\* exactly one of: process not yet started, waiting, in service, completed.
C18_UnitAccounting ==
    /\ inUse = Cardinality(InService)
    /\ Range(users) = InService
    /\ NoRepeats(users) /\ NoRepeats(put_queue)
    /\ NoRepeats(results.completed_orders) /\ NoRepeats(granted)
    /\ Completed = {departed[i][1] : i \in DOMAIN departed}
    /\ Spawned = NotStarted \cup Waiting \cup InService \cup Completed
    /\ NotStarted \cap (Waiting \cup InService \cup Completed) = {}
    /\ Waiting \cap (InService \cup Completed) = {}
    /\ InService \cap Completed = {}
    /\ Len(spawned) = Cardinality(NotStarted) + Len(put_queue)
                         + Cardinality(InService) + completedCount
    /\ \A e \in queue : e.kind = "init_order" => e.time = now

\* C18 witness: one order is completed, one is in service and one waits.
C18_Witness ==
    /\ completedCount >= 1
    /\ inUse >= 1
    /\ put_queue # <<>>
    /\ NotStarted = {}

C20_CompletionOrder ==
    /\ num_drivers = 1 =>
          \A i \in DOMAIN results.completed_orders :
             results.completed_orders[i] = i
    /\ \A i \in DOMAIN results.completed_orders :
          /\ results.completed_orders[i] \in 1 .. order_id
          /\ \A j \in DOMAIN results.completed_orders :
                i # j => results.completed_orders[i] # results.completed_orders[j]

\* C20 witness: with one driver two orders have completed, the second one
\* after waiting in the queue, and a third order has arrived.
C20_Witness ==
    /\ num_drivers = 1
    /\ completedCount >= 2
    /\ results.completed_orders[2] \in queued
    /\ order_id >= 3

====
